---- MODULE Spec2Model ----
(***************************************************************************)
(* A model of meow-agent: an interactive console that talks to a streaming *)
(* chat endpoint and runs small file commands as background tasks.         *)
(*                                                                         *)
(* A string is a sequence of symbols.  A symbol is one character ("a",     *)
(* ":", " ") or, for the fixed phrases the program prints, the phrase as a *)
(* whole.  Every operation on strings is modelled on these sequences.      *)
(***************************************************************************)
EXTENDS Integers, Sequences, FiniteSets, TLC

(***************************************************************************)
(* Bounds of the model.                                                    *)
(***************************************************************************)
\* the most argument tokens of a generated command line
MaxTokens == 5
\* the most characters of a generated file text
MaxText == 4
\* the largest line or column number handed to edit-at
MaxLineNo == 3
\* the most background commands spawned in one run
MaxCmds == 2
\* the most chat messages submitted in one run
MaxChats == 2
\* the most lines submitted in one run, commands and chat messages together
MaxEnters == 3
\* the most fragments the producer delivers on one stream
MaxFrags == 2
\* the most specifications of a generated registry
MaxSpecs == 3

(***************************************************************************)
(* Characters and strings.                                                 *)
(***************************************************************************)
TAB == "\t"
NL == "\n"
CR == "\r"

\* char::is_whitespace, restricted to the characters of the model
IsWs(c) == c \in {" ", TAB, NL, CR}

Digits == {"0", "1", "2", "3", "4", "5", "6", "7", "8", "9"}

DigitVal(c) ==
    CASE c = "0" -> 0 [] c = "1" -> 1 [] c = "2" -> 2 [] c = "3" -> 3
      [] c = "4" -> 4 [] c = "5" -> 5 [] c = "6" -> 6 [] c = "7" -> 7
      [] c = "8" -> 8 [] c = "9" -> 9

DigitChar(d) ==
    CASE d = 0 -> "0" [] d = 1 -> "1" [] d = 2 -> "2" [] d = 3 -> "3"
      [] d = 4 -> "4" [] d = 5 -> "5" [] d = 6 -> "6" [] d = 7 -> "7"
      [] d = 8 -> "8" [] d = 9 -> "9"

Min(a, b) == IF a <= b THEN a ELSE b

RECURSIVE Flatten(_)
\* the concatenation of a sequence of strings
Flatten(ss) == IF ss = <<>> THEN <<>> ELSE Head(ss) \o Flatten(Tail(ss))

RECURSIVE TrimStart(_)
TrimStart(s) ==
    IF s # <<>> /\ IsWs(Head(s)) THEN TrimStart(Tail(s)) ELSE s

RECURSIVE TrimEnd(_)
TrimEnd(s) ==
    IF s # <<>> /\ IsWs(s[Len(s)]) THEN TrimEnd(SubSeq(s, 1, Len(s) - 1)) ELSE s

\* str::trim
Trim(s) == TrimEnd(TrimStart(s))

\* str::starts_with
StartsWith(s, p) == Len(s) >= Len(p) /\ SubSeq(s, 1, Len(p)) = p

\* the absent value of an Option<&str>
NoStr == <<"<none>">>

\* str::strip_prefix
StripPrefix(s, p) ==
    IF StartsWith(s, p) THEN SubSeq(s, Len(p) + 1, Len(s)) ELSE NoStr

\* the position of the first occurrence of character c in s, or 0
FirstIndex(s, c) ==
    IF \E i \in 1..Len(s) : s[i] = c
    THEN CHOOSE i \in 1..Len(s) : s[i] = c /\ \A j \in 1..(i - 1) : s[j] # c
    ELSE 0

\* str::splitn(2, ' '): the first piece always exists, the second only
\* when s holds a space
SplitN2(s) ==
    LET i == FirstIndex(s, " ")
    IN IF i = 0 THEN [first |-> s, second |-> NoStr]
       ELSE [first |-> SubSeq(s, 1, i - 1), second |-> SubSeq(s, i + 1, Len(s))]

RECURSIVE SplitWs(_, _)
\* str::split_whitespace, with cur the token being read
SplitWs(s, cur) ==
    IF s = <<>> THEN (IF cur = <<>> THEN <<>> ELSE <<cur>>)
    ELSE IF IsWs(Head(s))
         THEN (IF cur = <<>> THEN <<>> ELSE <<cur>>) \o SplitWs(Tail(s), <<>>)
         ELSE SplitWs(Tail(s), Append(cur, Head(s)))

SplitWhitespace(s) == SplitWs(s, <<>>)

\* the absent value of a parsed number
NoNum == -1

RECURSIVE DigitsValue(_, _)
DigitsValue(ds, acc) ==
    IF ds = <<>> THEN acc ELSE DigitsValue(Tail(ds), 10 * acc + DigitVal(Head(ds)))

\* str::parse::<usize>: an optional '+', then one or more decimal digits
ParseUsize(tok) ==
    LET ds == IF tok # <<>> /\ Head(tok) = "+" THEN Tail(tok) ELSE tok
    IN IF ds = <<>> \/ \E i \in 1..Len(ds) : ds[i] \notin Digits
       THEN NoNum
       ELSE DigitsValue(ds, 0)

RECURSIVE FmtUsize(_)
\* the Display form of a usize: decimal, no sign, no leading zero
FmtUsize(n) ==
    IF n < 10 THEN <<DigitChar(n)>>
    ELSE Append(FmtUsize(n \div 10), DigitChar(n % 10))

(***************************************************************************)
(* Commands and their parsers.                                             *)
(***************************************************************************)
\* Option::None of parse and parse_command
NoCmd == [kind |-> "none"]

TouchName == <<"t", "o", "u", "c", "h">>
RmName == <<"r", "m">>
WriteName == <<"w", "r", "i", "t", "e">>
FindName == <<"f", "i", "n", "d">>
EditAtName == <<"e", "d", "i", "t", "-", "a", "t">>
MoveContentName == <<"m", "o", "v", "e", "-", "c", "o", "n", "t", "e", "n", "t">>

TouchSpecParse(args) ==
    LET parts == SplitWhitespace(args)
    IN IF Len(parts) < 1 THEN NoCmd
       ELSE [kind |-> "touch", path |-> parts[1]]

RmSpecParse(args) ==
    LET parts == SplitWhitespace(args)
    IN IF Len(parts) < 1 THEN NoCmd
       ELSE [kind |-> "rm", path |-> parts[1]]

WriteSpecParse(args) ==
    LET it == SplitN2(args)
    IN [kind |-> "write", path |-> it.first,
        content |-> IF it.second = NoStr THEN <<>> ELSE it.second]

FindSpecParse(args) ==
    LET parts == SplitWhitespace(args)
    IN [kind |-> "find", pattern |-> IF Len(parts) < 1 THEN <<>> ELSE parts[1]]

EditAtSpecParse(args) ==
    LET parts == SplitWhitespace(args)
    IN IF Len(parts) < 3 THEN NoCmd
       ELSE LET path == parts[1]
                line == ParseUsize(parts[2])
                col == ParseUsize(parts[3])
            IN IF line = NoNum \/ col = NoNum THEN NoCmd
               ELSE LET consumed == path \o <<" ">> \o FmtUsize(line)
                                         \o <<" ">> \o FmtUsize(col)
                        s1 == StripPrefix(args, consumed)
                        s2 == IF s1 = NoStr THEN NoStr ELSE StripPrefix(s1, <<" ">>)
                    IN [kind |-> "edit-at", path |-> path, line |-> line,
                        col |-> col,
                        content |-> IF s2 = NoStr THEN <<>> ELSE s2]

MoveContentSpecParse(args) ==
    LET parts == SplitWhitespace(args)
    IN IF Len(parts) < 5 THEN NoCmd
       ELSE LET start_line == ParseUsize(parts[2])
                end_line == ParseUsize(parts[3])
                dst_line == ParseUsize(parts[5])
            IN IF start_line = NoNum \/ end_line = NoNum \/ dst_line = NoNum
               THEN NoCmd
               ELSE [kind |-> "move-content", src |-> parts[1],
                     start_line |-> start_line, end_line |-> end_line,
                     dst |-> parts[4], dst_line |-> dst_line]

\* the name a specification of each kind is registered under
KindName(kind) ==
    CASE kind = "touch" -> TouchName
      [] kind = "rm" -> RmName
      [] kind = "write" -> WriteName
      [] kind = "find" -> FindName
      [] kind = "edit-at" -> EditAtName
      [] kind = "move-content" -> MoveContentName

\* a specification: the kind of command it parses and the name it answers to
Registered(kind) == [kind |-> kind, name |-> KindName(kind)]

\* the registry, in the order parse_command scans it
command_specs ==
    <<Registered("touch"), Registered("rm"), Registered("write"),
      Registered("find"), Registered("edit-at"), Registered("move-content")>>

\* CommandSpec::name
SpecName(spec) == spec.name

\* CommandSpec::parse
SpecParse(spec, args) ==
    CASE spec.kind = "touch" -> TouchSpecParse(args)
      [] spec.kind = "rm" -> RmSpecParse(args)
      [] spec.kind = "write" -> WriteSpecParse(args)
      [] spec.kind = "find" -> FindSpecParse(args)
      [] spec.kind = "edit-at" -> EditAtSpecParse(args)
      [] spec.kind = "move-content" -> MoveContentSpecParse(args)

RECURSIVE ScanSpecs(_, _, _)
\* the loop of parse_command over the registry: the first specification whose
\* name is cmd and whose parse accepts args decides
ScanSpecs(specs, cmd, args) ==
    IF specs = <<>> THEN NoCmd
    ELSE IF SpecName(Head(specs)) = cmd /\ SpecParse(Head(specs), args) # NoCmd
         THEN SpecParse(Head(specs), args)
         ELSE ScanSpecs(Tail(specs), cmd, args)

\* parse_command, with specs for what command_specs() returns
ParseWith(specs, input) ==
    LET trimmed == Trim(input)
    IN IF ~StartsWith(trimmed, <<":">>) THEN NoCmd
       ELSE LET it == SplitN2(Tail(trimmed))
                cmd == it.first
                args == IF it.second = NoStr THEN <<>> ELSE it.second
            IN ScanSpecs(specs, cmd, args)

parse_command(input) == ParseWith(command_specs, input)

\* what the Enter key does with the buffer: nothing, spawn a command, or
\* the chat path
EnterRoute(input) ==
    IF Trim(input) = <<>> THEN "ignored"
    ELSE IF parse_command(input) # NoCmd THEN "spawn"
    ELSE "chat"

(***************************************************************************)
(* File texts.  A text is a sequence of bytes; the two-byte character of   *)
(* the model is the pair E1, E2.                                           *)
(***************************************************************************)
E1 == "E1"
E2 == "E2"

\* str::is_char_boundary
IsCharBoundary(s, idx) ==
    \/ idx = 0
    \/ idx = Len(s)
    \/ idx < Len(s) /\ s[idx + 1] # E2

\* a line without its terminator: "\n", or "\r\n"
StripCr(l) ==
    IF l # <<>> /\ l[Len(l)] = CR THEN SubSeq(l, 1, Len(l) - 1) ELSE l

RECURSIVE Lines(_)
\* str::lines
Lines(s) ==
    IF s = <<>> THEN <<>>
    ELSE LET i == FirstIndex(s, NL)
         IN IF i = 0 THEN <<s>>
            ELSE <<StripCr(SubSeq(s, 1, i - 1))>> \o Lines(SubSeq(s, i + 1, Len(s)))

\* String::insert_str, for an idx it accepts
InsertStr(s, idx, t) == SubSeq(s, 1, idx) \o t \o SubSeq(s, idx + 1, Len(s))

RECURSIVE EditAtOffset(_, _, _, _, _)
\* the loop of EditAtCommand::execute over lines ls, from line index i
\* (0-based) with the offset summed so far
EditAtOffset(ls, i, line, col, offset) ==
    IF ls = <<>> THEN offset
    ELSE IF i + 1 = line THEN offset + Min(col, Len(Head(ls)))
    ELSE EditAtOffset(Tail(ls), i + 1, line, col, offset + Len(Head(ls)) + 1)

\* the text EditAtCommand::execute writes back, or a panic of insert_str
EditAtText(text, line, col, content) ==
    LET offset == EditAtOffset(Lines(text), 0, line, col, 0)
    IN IF offset <= Len(text) /\ IsCharBoundary(text, offset)
       THEN [tag |-> "ok", text |-> InsertStr(text, offset, content)]
       ELSE [tag |-> "panic"]

RECURSIVE JoinNl(_)
\* [&str]::join("\n")
JoinNl(ls) ==
    IF ls = <<>> THEN <<>>
    ELSE IF Len(ls) = 1 THEN Head(ls)
    ELSE Head(ls) \o <<NL>> \o JoinNl(Tail(ls))

RECURSIVE KeepOutside(_, _, _, _)
\* the lines with index (0-based, from i) outside start..end-1, each
\* followed by a newline
KeepOutside(ls, i, start, end) ==
    IF ls = <<>> THEN <<>>
    ELSE (IF i < start \/ i >= end THEN Head(ls) \o <<NL>> ELSE <<>>)
         \o KeepOutside(Tail(ls), i + 1, start, end)

RECURSIVE LineStartOffset(_, _, _, _)
\* the loop of MoveContentCommand::execute over the lines of dst
LineStartOffset(ls, i, dst_line, offset) ==
    IF ls = <<>> THEN offset
    ELSE IF i + 1 = dst_line THEN offset
    ELSE LineStartOffset(Tail(ls), i + 1, dst_line, offset + Len(Head(ls)) + 1)

\* the two texts MoveContentCommand::execute writes back, or a panic of the
\* slice lines[start..end] or of insert_str
MoveContentTexts(src_text, dst_text, start_line, end_line, dst_line) ==
    LET lines == Lines(src_text)
        start == IF start_line = 0 THEN 0 ELSE start_line - 1
        end == Min(end_line, Len(lines))
    IN IF start > end THEN [tag |-> "panic"]
       ELSE LET moving == JoinNl(SubSeq(lines, start + 1, end))
                new_src == KeepOutside(lines, 0, start, end)
                offset == LineStartOffset(Lines(dst_text), 0, dst_line, 0)
            IN IF offset <= Len(dst_text) /\ IsCharBoundary(dst_text, offset)
               THEN [tag |-> "ok", src |-> new_src,
                     dst |-> InsertStr(dst_text, offset, moving \o <<NL>>)]
               ELSE [tag |-> "panic"]

(***************************************************************************)
(* Command execution on the filesystem.  A filesystem is a function from   *)
(* the paths that exist to their texts.                                    *)
(***************************************************************************)
NotFound == <<"No such file or directory (os error 2)">>

\* the fixed phrases of the commands' results (the program prints them in
\* Chinese), each one symbol
MsgCreated == <<"[file created]">>
MsgDeleted == <<"[file deleted]">>
MsgWritten == <<"[file written]">>
MsgInserted == <<"[content inserted]">>
MsgMoved == <<"[content moved]">>
\* "matched {n} files:\n{list}", around the count
MsgFoundHead == <<"[matched ">>
MsgFoundMid == <<" files:]", NL>>

\* tokio::fs::write: creates or truncates; the empty path names no file
FsWrite(fs, path, text) ==
    IF path = <<>> THEN [tag |-> "err", e |-> NotFound, fs |-> fs]
    ELSE [tag |-> "ok",
          fs |-> [p \in DOMAIN fs \cup {path} |-> IF p = path THEN text ELSE fs[p]]]

\* str::contains
Contains(s, pat) ==
    \E i \in 0..(Len(s) - Len(pat)) : SubSeq(s, i + 1, i + Len(pat)) = pat

RECURSIVE Listings(_)
\* the orders in which read_dir may list a set of paths, each joined by "\n"
Listings(ps) ==
    IF ps = {} THEN {<<>>}
    ELSE UNION {{IF Cardinality(ps) = 1 THEN p ELSE p \o <<NL>> \o rest :
                    rest \in Listings(ps \ {p})} : p \in ps}

Outcome(tag, text, fs) == [tag |-> tag, text |-> text, fs |-> fs]

\* as TouchExecute, were a path that exists reported as written
TouchExecuteReports(cmd, fs) ==
    LET w == FsWrite(fs, cmd.path, <<>>)
    IN IF w.tag = "err" THEN {Outcome("err", w.e, fs)}
       ELSE {Outcome("ok", IF cmd.path \in DOMAIN fs THEN MsgWritten ELSE MsgCreated,
                     w.fs)}

TouchExecute(cmd, fs) ==
    LET w == FsWrite(fs, cmd.path, <<>>)
    IN IF w.tag = "err" THEN {Outcome("err", w.e, fs)}
       ELSE {Outcome("ok", MsgCreated, w.fs)}

RmExecute(cmd, fs) ==
    IF cmd.path \notin DOMAIN fs THEN {Outcome("err", NotFound, fs)}
    ELSE {Outcome("ok", MsgDeleted, [p \in DOMAIN fs \ {cmd.path} |-> fs[p]])}

WriteExecute(cmd, fs) ==
    LET w == FsWrite(fs, cmd.path, cmd.content)
    IN IF w.tag = "err" THEN {Outcome("err", w.e, fs)}
       ELSE {Outcome("ok", MsgWritten, w.fs)}

FindExecute(cmd, fs) ==
    LET found == {p \in DOMAIN fs : Contains(p, cmd.pattern)}
    IN {Outcome("ok",
                MsgFoundHead \o FmtUsize(Cardinality(found)) \o MsgFoundMid \o l,
                fs) : l \in Listings(found)}

EditAtExecute(cmd, fs) ==
    IF cmd.path \notin DOMAIN fs THEN {Outcome("err", NotFound, fs)}
    ELSE LET r == EditAtText(fs[cmd.path], cmd.line, cmd.col, cmd.content)
         IN IF r.tag = "panic" THEN {Outcome("panic", <<>>, fs)}
            ELSE {Outcome("ok", MsgInserted,
                          FsWrite(fs, cmd.path, r.text).fs)}

MoveContentExecute(cmd, fs) ==
    IF cmd.src \notin DOMAIN fs \/ cmd.dst \notin DOMAIN fs
    THEN {Outcome("err", NotFound, fs)}
    ELSE LET r == MoveContentTexts(fs[cmd.src], fs[cmd.dst], cmd.start_line,
                                   cmd.end_line, cmd.dst_line)
         IN IF r.tag = "panic" THEN {Outcome("panic", <<>>, fs)}
            ELSE {Outcome("ok", MsgMoved,
                          FsWrite(FsWrite(fs, cmd.src, r.src).fs, cmd.dst, r.dst).fs)}

\* ToolCommand::execute: the outcomes (result text and filesystem after) of
\* running cmd on fs
Execute(cmd, fs) ==
    CASE cmd.kind = "touch" -> TouchExecute(cmd, fs)
      [] cmd.kind = "rm" -> RmExecute(cmd, fs)
      [] cmd.kind = "write" -> WriteExecute(cmd, fs)
      [] cmd.kind = "find" -> FindExecute(cmd, fs)
      [] cmd.kind = "edit-at" -> EditAtExecute(cmd, fs)
      [] cmd.kind = "move-content" -> MoveContentExecute(cmd, fs)

(***************************************************************************)
(* The state of a run.                                                     *)
(***************************************************************************)
VARIABLES
    pc,          \* where the main task is: start, draw, poll, create, stream,
                 \* redraw, fragdraw; or how the process ended: nokey,
                 \* exited, failed, panicked
    input,       \* App.input
    messages,    \* App.messages: the Turns, each [role, content]
    status,      \* App.status
    events,      \* the Event Bus: what was sent on events_tx and not yet
                 \* taken from events_rx
    tasks,       \* the spawned run_command tasks, in spawn order
    fs,          \* the filesystem
    chat_stream, \* the response stream: the fragments in flight and whether
                 \* the producer still holds its end
    idx,         \* the index of the assistant Turn of the open stream
    merged,      \* the accumulator of stream_to_openai
    recvd,       \* the fragments the open stream has handed out
    chats,       \* the chat messages submitted so far
    call,        \* the input of the function under check
    ret          \* its result

vars == <<pc, input, messages, status, events, tasks, fs, chat_stream, idx,
          merged, recvd, chats, call, ret>>

appVars == <<input, messages, status>>
streamVars == <<chat_stream, idx, merged, recvd>>
fnVars == <<call, ret>>

Idle == [tag |-> "Idle"]
Requesting == [tag |-> "Requesting"]
StatusError(e) == [tag |-> "Error", msg |-> e]

Turn(role, content) == [role |-> role, content |-> content]

\* the two Turns App::new starts the history with
SystemPrompt == <<"[system prompt]">>
ConfigLine == <<"[config]">>

\* "request failed: {e}" and "operation failed: {e}"
RequestFailed(e) == <<"[request failed: ]">> \o e
OperationFailed(e) == <<"[operation failed: ]">> \o e

\* the errors stream_to_openai can return
CreateError == <<"[create_stream error]">>
MergeError == <<"[merge error]">>
DrawError == <<"[io error]">>

\* Option::None of merged
NoMerged == [some |-> FALSE]

\* no function is under check
NoCall == [fn |-> "none"]
Pending == [tag |-> "pending"]

Alive == pc \notin {"nokey", "exited", "failed", "panicked"}

(***************************************************************************)
(* The key source.  The keys pressed keep the buffer a prefix of one of    *)
(* these lines, and Enter is pressed on the empty buffer or on a whole     *)
(* line.                                                                   *)
(***************************************************************************)
SampleInputs ==
    { <<"h">>,
      <<":">>,
      <<":", "r", "m", " ", "f">>,
      <<TAB>> }

\* the lines of the run: those of the scenario when the run is one,
\* SampleInputs otherwise
Keys == IF call.fn = "run" THEN call.keys ELSE SampleInputs

Submittable(s) == s = <<>> \/ s \in Keys

Typable(s) ==
    \E l \in Keys : Len(s) <= Len(l) /\ SubSeq(l, 1, Len(s)) = s

KeyChars == UNION {{l[i] : i \in 1..Len(l)} : l \in Keys} \ {TAB}

(***************************************************************************)
(* The response stream.                                                    *)
(***************************************************************************)
\* the text of the n-th fragment of a response, when it carries one
FragmentText(n) ==
    <<CASE n = 1 -> "t1" [] n = 2 -> "t2" [] n = 3 -> "t3" [] OTHER -> "t4">>

\* a fragment: how many choices it carries and the text of the first; the
\* n-th fragment can be any of these
Fragments(n) ==
    { [choices |-> 0, content |-> NoStr],
      [choices |-> 1, content |-> NoStr],
      [choices |-> 1, content |-> FragmentText(n)] }

NoStream == [buf |-> <<>>, open |-> FALSE]

Init ==
    /\ pc = "start"
    /\ input = <<>>
    /\ messages = <<Turn("system", SystemPrompt), Turn("system", ConfigLine)>>
    /\ status = Idle
    /\ events = <<>>
    /\ tasks = <<>>
    /\ fs = [p \in {<<"f">>} |-> <<>>]
    /\ chat_stream = NoStream
    /\ idx = 0
    /\ merged = NoMerged
    /\ recvd = <<>>
    /\ chats = 0
    /\ call = NoCall
    /\ ret = Pending

\* the process ends: its state is gone, and with the runtime its tasks
ProcessEnds(how) ==
    /\ pc' = how
    /\ input' = <<>>
    /\ messages' = <<>>
    /\ status' = Idle
    /\ events' = <<>>
    /\ tasks' = <<>>
    /\ chat_stream' = NoStream
    /\ idx' = 0
    /\ merged' = NoMerged
    /\ recvd' = <<>>
    /\ chats' = 0
    /\ UNCHANGED <<fs, fnVars>>

(***************************************************************************)
(* main: startup and the interaction loop.                                 *)
(***************************************************************************)
\* main up to the loop, with OPENAI_API_KEY set and a terminal
Startup ==
    /\ pc = "start"
    /\ pc' = "draw"
    /\ UNCHANGED <<appVars, events, tasks, fs, streamVars, chats, fnVars>>

\* without OPENAI_API_KEY main prints its guidance and returns
StartupNoKey ==
    /\ pc = "start"
    /\ ProcessEnds("nokey")

\* a terminal that cannot be set up, or terminal.draw, event::poll or
\* event::read returning an error: main returns the error
MainIoError ==
    /\ pc \in {"start", "draw", "poll"}
    /\ ProcessEnds("failed")

\* terminal.draw at the top of an iteration
\* as MainDraw, were Enter to await the command it starts: the loop comes
\* to its next draw once no command is executing
MainDrawAfterCommands ==
    /\ \A i \in 1..Len(tasks) : tasks[i].pc \in {"done", "panicked"}
    /\ pc = "draw"
    /\ pc' = "poll"
    /\ UNCHANGED <<appVars, events, tasks, fs, streamVars, chats, fnVars>>

MainDraw ==
    /\ pc = "draw"
    /\ pc' = "poll"
    /\ UNCHANGED <<appVars, events, tasks, fs, streamVars, chats, fnVars>>

\* no event within the timeout, an event that is no key press, or a key the
\* match ignores
PollTimeout ==
    /\ pc = "poll"
    /\ pc' = "draw"
    /\ UNCHANGED <<appVars, events, tasks, fs, streamVars, chats, fnVars>>

KeyEsc ==
    /\ pc = "poll"
    /\ ProcessEnds("exited")

KeyChar(c) ==
    /\ pc = "poll"
    /\ Typable(Append(input, c))
    /\ input' = Append(input, c)
    /\ pc' = "draw"
    /\ UNCHANGED <<messages, status, events, tasks, fs, streamVars, chats, fnVars>>

KeyTab ==
    /\ pc = "poll"
    /\ Typable(Append(input, TAB))
    /\ input' = Append(input, TAB)
    /\ pc' = "draw"
    /\ UNCHANGED <<messages, status, events, tasks, fs, streamVars, chats, fnVars>>

\* String::pop
KeyBackspace ==
    /\ pc = "poll"
    /\ input' = IF input = <<>> THEN <<>> ELSE SubSeq(input, 1, Len(input) - 1)
    /\ pc' = "draw"
    /\ UNCHANGED <<messages, status, events, tasks, fs, streamVars, chats, fnVars>>

\* Enter on a buffer that is empty once trimmed: continue
EnterIgnored ==
    /\ pc = "poll"
    /\ Submittable(input)
    /\ EnterRoute(input) = "ignored"
    /\ pc' = "draw"
    /\ UNCHANGED <<appVars, events, tasks, fs, streamVars, chats, fnVars>>

\* Enter on a buffer parse_command accepts: spawn run_command
EnterSpawn ==
    /\ pc = "poll"
    /\ Submittable(input)
    /\ EnterRoute(input) = "spawn"
    /\ Len(tasks) < MaxCmds
    /\ Len(tasks) + chats < MaxEnters
    /\ tasks' = Append(tasks, [cmd |-> parse_command(input), pc |-> "spawned",
                                res |-> Pending])
    /\ input' = <<>>
    /\ pc' = "draw"
    /\ UNCHANGED <<messages, status, events, fs, streamVars, chats, fnVars>>

\* Enter on any other buffer: the chat path up to the call of
\* stream_to_openai
EnterChat ==
    /\ pc = "poll"
    /\ Submittable(input)
    /\ EnterRoute(input) = "chat"
    /\ chats < MaxChats
    /\ Len(tasks) + chats < MaxEnters
    /\ messages' = Append(messages, Turn("user", input))
    /\ status' = Requesting
    /\ chats' = chats + 1
    /\ pc' = "create"
    /\ UNCHANGED <<input, events, tasks, fs, streamVars, fnVars>>

\* ... with the draw before the call failing: main returns the error
EnterChatDrawFails ==
    /\ pc = "poll"
    /\ Submittable(input)
    /\ EnterRoute(input) = "chat"
    /\ chats < MaxChats
    /\ Len(tasks) + chats < MaxEnters
    /\ ProcessEnds("failed")

KeyEnter == EnterIgnored \/ EnterSpawn \/ EnterChat \/ EnterChatDrawFails

(***************************************************************************)
(* stream_to_openai, and what main does with its result.                   *)
(***************************************************************************)
\* the locals of stream_to_openai are dropped when it returns
StreamDropped ==
    /\ chat_stream' = NoStream
    /\ idx' = 0
    /\ merged' = NoMerged
    /\ recvd' = <<>>

\* as StatusAfterErr, were the Err arm to leave the status of a finished
\* request
StatusAfterErrIdle(e) == Idle

\* the status main sets when stream_to_openai returns Err(e)
StatusAfterErr(e) == StatusError(e)

\* the Err arm of main and the clear that follows
ReturnErr(e) ==
    /\ messages' = Append(messages, Turn("system", RequestFailed(e)))
    /\ status' = StatusAfterErr(e)
    /\ input' = <<>>
    /\ pc' = "draw"
    /\ StreamDropped
    /\ UNCHANGED <<events, tasks, fs, chats, fnVars>>

\* the Ok arm of main and the clear that follows
ReturnOk ==
    /\ status' = Idle
    /\ input' = <<>>
    /\ pc' = "draw"
    /\ StreamDropped
    /\ UNCHANGED <<messages, events, tasks, fs, chats, fnVars>>

\* create_stream succeeds: the placeholder assistant Turn is pushed
StreamCreate ==
    /\ pc = "create"
    /\ messages' = Append(messages, Turn("assistant", <<>>))
    /\ idx' = Len(messages) + 1
    /\ merged' = NoMerged
    /\ recvd' = <<>>
    /\ chat_stream' = [buf |-> <<>>, open |-> TRUE]
    /\ pc' = "stream"
    /\ UNCHANGED <<input, status, events, tasks, fs, chats, fnVars>>

StreamCreateFails ==
    /\ pc = "create"
    /\ ReturnErr(CreateError)

\* as EventTurns, were the notification put before the history
EventTurnsFirst(ev, msgs) ==
    IF ev.type = "System" THEN <<Turn("system", ev.text)>> \o msgs ELSE msgs

\* as EventTurns, were the System arm to drop the notification
EventTurnsDropped(ev, msgs) == msgs

\* the history after the match on a drained event
EventTurns(ev, msgs) ==
    IF ev.type = "System" THEN Append(msgs, Turn("system", ev.text)) ELSE msgs

\* the status after the match on a drained event
EventStatus(ev, st) ==
    IF ev.type = "Status" THEN ev.status ELSE st

\* one turn of the while-let over events_rx, up to its draw
ApplyEvent ==
    /\ pc = "stream"
    /\ events # <<>>
    /\ messages' = EventTurns(Head(events), messages)
    /\ status' = EventStatus(Head(events), status)
    /\ events' = Tail(events)
    /\ pc' = "redraw"
    /\ UNCHANGED <<input, tasks, fs, streamVars, chats, fnVars>>

\* the draw after a drained event
Redraw ==
    /\ pc = "redraw"
    /\ pc' = "stream"
    /\ UNCHANGED <<appVars, events, tasks, fs, streamVars, chats, fnVars>>

RedrawFails ==
    /\ pc = "redraw"
    /\ ReturnErr(DrawError)

\* as TargetTurn, were the text pushed to the last Turn of the history
TargetTurnLast(i, msgs) == Len(msgs)

\* the index of the Turn that push_str extends
TargetTurn(i, msgs) == i

\* as PushText, were every assistant Turn still open
PushTextAll(msgs, i, text) ==
    [k \in 1..Len(msgs) |->
        IF msgs[k].role = "assistant"
        THEN [msgs[k] EXCEPT !.content = @ \o text] ELSE msgs[k]]

\* the history after push_str of a fragment's text
PushText(msgs, i, text) ==
    [msgs EXCEPT ![TargetTurn(i, msgs)].content = @ \o text]

\* merged after a fragment is folded in
Fold(m, delta) ==
    IF m = NoMerged THEN [some |-> TRUE, deltas |-> <<delta>>]
    ELSE [m EXCEPT !.deltas = Append(@, delta)]

\* the events queue is empty and chat_stream.try_recv returns a fragment
\* without a choice: choices[0] is out of bounds
RecvNoChoice ==
    /\ pc = "stream"
    /\ events = <<>>
    /\ chat_stream.buf # <<>>
    /\ Head(chat_stream.buf).choices = 0
    /\ ProcessEnds("panicked")

\* ... a fragment without text: it is merged (the first is kept as it is)
RecvNoText ==
    /\ pc = "stream"
    /\ events = <<>>
    /\ chat_stream.buf # <<>>
    /\ Head(chat_stream.buf).choices > 0
    /\ Head(chat_stream.buf).content = NoStr
    /\ \/ /\ merged' = Fold(merged, Head(chat_stream.buf))
          /\ recvd' = Append(recvd, Head(chat_stream.buf))
          /\ chat_stream' = [chat_stream EXCEPT !.buf = Tail(@)]
          /\ UNCHANGED <<pc, appVars, idx, events, tasks, fs, chats, fnVars>>
       \/ /\ merged # NoMerged
          /\ ReturnErr(MergeError)

\* ... a fragment with text: the text is appended, up to the draw
RecvText ==
    /\ pc = "stream"
    /\ events = <<>>
    /\ chat_stream.buf # <<>>
    /\ Head(chat_stream.buf).choices > 0
    /\ Head(chat_stream.buf).content # NoStr
    /\ recvd' = Append(recvd, Head(chat_stream.buf))
    /\ chat_stream' = [chat_stream EXCEPT !.buf = Tail(@)]
    /\ messages' = PushText(messages, idx, Head(chat_stream.buf).content)
    /\ pc' = "fragdraw"
    /\ UNCHANGED <<input, status, events, tasks, fs, idx, merged, chats, fnVars>>

\* the draw after a fragment's text, then the merge
FragDraw ==
    /\ pc = "fragdraw"
    /\ \/ /\ merged' = Fold(merged, recvd[Len(recvd)])
          /\ pc' = "stream"
          /\ UNCHANGED <<appVars, chat_stream, idx, recvd, events, tasks, fs,
                         chats, fnVars>>
       \/ /\ merged # NoMerged
          /\ ReturnErr(MergeError)

FragDrawFails ==
    /\ pc = "fragdraw"
    /\ ReturnErr(DrawError)

\* try_recv returns Empty: sleep and poll again
RecvEmpty ==
    /\ pc = "stream"
    /\ events = <<>>
    /\ chat_stream.buf = <<>>
    /\ chat_stream.open
    /\ UNCHANGED vars

\* as RecvDisconnected, were the loop to break once the producer is gone,
\* whatever is still buffered
RecvDisconnectedEarly ==
    /\ pc = "stream"
    /\ events = <<>>
    /\ ~chat_stream.open
    /\ IF merged = NoMerged THEN ProcessEnds("panicked") ELSE ReturnOk

\* try_recv returns Disconnected: the loop breaks and merged is unwrapped
RecvDisconnected ==
    /\ pc = "stream"
    /\ events = <<>>
    /\ chat_stream.buf = <<>>
    /\ ~chat_stream.open
    /\ IF merged = NoMerged THEN ProcessEnds("panicked") ELSE ReturnOk

\* the producer of the stream delivers its next fragment
ProducerSend(f) ==
    /\ pc \in {"stream", "redraw", "fragdraw"}
    /\ chat_stream.open
    /\ Len(recvd) + Len(chat_stream.buf) < MaxFrags
    /\ chat_stream' = [chat_stream EXCEPT !.buf = Append(@, f)]
    /\ UNCHANGED <<pc, appVars, events, tasks, fs, idx, merged, recvd, chats,
                   fnVars>>

\* the producer drops its end of the stream
ProducerClose ==
    /\ pc \in {"stream", "redraw", "fragdraw"}
    /\ chat_stream.open
    /\ chat_stream' = [chat_stream EXCEPT !.open = FALSE]
    /\ UNCHANGED <<pc, appVars, events, tasks, fs, idx, merged, recvd, chats,
                   fnVars>>

(***************************************************************************)
(* run_command, one task per spawned command.                              *)
(***************************************************************************)
Event(i, body) == body @@ [from |-> i]

\* the text of the notification for a result
NotifyText(res) ==
    IF res.tag = "ok" THEN res.text ELSE OperationFailed(res.text)

\* the final status for a result
FinalStatus(res) ==
    IF res.tag = "ok" THEN Idle ELSE StatusError(res.text)

\* tx.send(Status(Requesting))
TaskStart(i) ==
    /\ Alive
    /\ tasks[i].pc = "spawned"
    /\ events' = Append(events, Event(i, [type |-> "Status", status |-> Requesting]))
    /\ tasks' = [tasks EXCEPT ![i].pc = "exec"]
    /\ UNCHANGED <<pc, appVars, fs, streamVars, chats, fnVars>>

\* cmd.execute().await; a panic inside it ends the task
TaskExec(i) ==
    /\ Alive
    /\ tasks[i].pc = "exec"
    /\ \E o \in Execute(tasks[i].cmd, fs) :
          /\ fs' = o.fs
          /\ tasks' = [tasks EXCEPT
                         ![i].pc = IF o.tag = "panic" THEN "panicked" ELSE "notify",
                         ![i].res = [tag |-> o.tag, text |-> o.text]]
    /\ UNCHANGED <<pc, appVars, events, streamVars, chats, fnVars>>

\* as TaskNotify, were the task to push its notification onto the history
\* itself
TaskNotifyDirect(i) ==
    /\ Alive
    /\ tasks[i].pc = "notify"
    /\ messages' = Append(messages, Turn("system", NotifyText(tasks[i].res)))
    /\ tasks' = [tasks EXCEPT ![i].pc = "final"]
    /\ UNCHANGED <<pc, input, status, events, fs, streamVars, chats, fnVars>>

\* tx.send(System(..))
TaskNotify(i) ==
    /\ Alive
    /\ tasks[i].pc = "notify"
    /\ events' = Append(events, Event(i, [type |-> "System",
                                          text |-> NotifyText(tasks[i].res)]))
    /\ tasks' = [tasks EXCEPT ![i].pc = "final"]
    /\ UNCHANGED <<pc, appVars, fs, streamVars, chats, fnVars>>

\* tx.send(Status(..)), the last statement of the task
TaskFinal(i) ==
    /\ Alive
    /\ tasks[i].pc = "final"
    /\ events' = Append(events, Event(i, [type |-> "Status",
                                          status |-> FinalStatus(tasks[i].res)]))
    /\ tasks' = [tasks EXCEPT ![i].pc = "done"]
    /\ UNCHANGED <<pc, appVars, fs, streamVars, chats, fnVars>>

MainStep ==
    \/ Startup \/ StartupNoKey \/ MainIoError \/ MainDraw
    \/ EnterIgnored \/ EnterSpawn \/ EnterChat \/ EnterChatDrawFails
    \/ (\E c \in KeyChars : KeyChar(c))
    \/ KeyTab \/ KeyBackspace \/ KeyEsc \/ PollTimeout

StreamStep ==
    \/ StreamCreate \/ StreamCreateFails \/ ApplyEvent \/ Redraw \/ RedrawFails
    \/ RecvNoChoice \/ RecvNoText \/ RecvText \/ FragDraw \/ FragDrawFails
    \/ RecvEmpty \/ RecvDisconnected

ProducerStep ==
    \/ \E f \in Fragments(Len(recvd) + Len(chat_stream.buf) + 1) : ProducerSend(f)
    \/ ProducerClose

TaskStep ==
    \E i \in 1..Len(tasks) :
        TaskStart(i) \/ TaskExec(i) \/ TaskNotify(i) \/ TaskFinal(i)

Next == MainStep \/ StreamStep \/ ProducerStep \/ TaskStep

Spec == Init /\ [][Next]_vars

\* the main task and every spawned task keep being scheduled; the keys and
\* the stream's producer are the environment's
Fairness ==
    /\ WF_vars(Startup)
    /\ WF_vars(MainDraw)
    /\ WF_vars(PollTimeout)
    /\ WF_vars(StreamStep)
    /\ \A i \in 1..MaxCmds :
          WF_vars(i <= Len(tasks) /\
                  (TaskStart(i) \/ TaskExec(i) \/ TaskNotify(i) \/ TaskFinal(i)))

FairSpec == Spec /\ Fairness

(***************************************************************************)
(* Runs of the program on other lines and files: touch of a path that is   *)
(* absent at first, and edit-at of a file without a final newline.         *)
(***************************************************************************)
TouchLine == <<":">> \o TouchName \o <<" ", "f">>
EditAtLine == <<":">> \o EditAtName \o <<" ", "f", " ", "0", " ", "0", " ", "Z">>

Scenarios ==
    { [fn |-> "run", keys |-> {TouchLine, <<"h">>, <<TAB>>}, fs |-> <<>>],
      [fn |-> "run", keys |-> {EditAtLine, <<"h">>, <<TAB>>},
       fs |-> [p \in {<<"f">>} |-> <<"a">>]] }

InitScenario ==
    /\ pc = "start"
    /\ input = <<>>
    /\ messages = <<Turn("system", SystemPrompt), Turn("system", ConfigLine)>>
    /\ status = Idle
    /\ events = <<>>
    /\ tasks = <<>>
    /\ call \in Scenarios
    /\ fs = call.fs
    /\ chat_stream = NoStream
    /\ idx = 0
    /\ merged = NoMerged
    /\ recvd = <<>>
    /\ chats = 0
    /\ ret = Pending

ScenarioSpec == InitScenario /\ [][Next]_vars

(***************************************************************************)
(* The functions checked on their own: parse_command with the route Enter  *)
(* takes, and execute of a command on a filesystem.                        *)
(***************************************************************************)
\* no run of the console is under way
NoRun ==
    /\ pc = "fn"
    /\ input = <<>>
    /\ messages = <<>>
    /\ status = Idle
    /\ events = <<>>
    /\ tasks = <<>>
    /\ fs = <<>>
    /\ chat_stream = NoStream
    /\ idx = 0
    /\ merged = NoMerged
    /\ recvd = <<>>
    /\ chats = 0

runVars == <<pc, appVars, events, tasks, fs, streamVars, chats>>

RECURSIVE Join(_, _)
\* the tokens of toks, with gap between them
Join(toks, gap) ==
    IF toks = <<>> THEN <<>>
    ELSE IF Len(toks) = 1 THEN Head(toks)
    ELSE Head(toks) \o gap \o Join(Tail(toks), gap)

\* the sequences of at most n elements of S
SeqsUpTo(S, n) == UNION {[1..k -> S] : k \in 0..n}

ArgTokens == {<<"f">>, <<"1">>, <<"+", "2">>}

CommandWords ==
    {TouchName, RmName, WriteName, FindName, EditAtName, MoveContentName,
     <<"x">>, <<>>}

\* the lines handed to parse_command: with or without leading whitespace and
\* the sentinel, a command word, and argument tokens separated by one or
\* two spaces, with or without a trailing space
ParseInputs ==
    {lead \o colon \o word \o (IF toks = <<>> THEN trail
                               ELSE gap \o Join(toks, gap) \o trail) :
        lead \in {<<>>, <<" ">>}, colon \in {<<>>, <<":">>},
        word \in CommandWords, toks \in SeqsUpTo(ArgTokens, MaxTokens),
        gap \in {<<" ">>, <<" ", " ">>}, trail \in {<<>>, <<" ">>}}

InitParse ==
    /\ NoRun
    /\ call \in {[fn |-> "parse_command", input |-> i] : i \in ParseInputs}
    /\ ret = Pending

\* Enter on the line: parse_command, and the branch main takes
CallParse ==
    /\ call.fn = "parse_command"
    /\ ret = Pending
    /\ ret' = [tag |-> "done", cmd |-> parse_command(call.input),
               route |-> EnterRoute(call.input)]
    /\ UNCHANGED <<runVars, call>>

ParseSpec == InitParse /\ [][CallParse]_vars

\* specifications registered under their own name or under another's
SpecSet ==
    {[kind |-> k, name |-> KindName(n)] :
        k \in {"rm", "edit-at"}, n \in {"rm", "edit-at"}}

\* the registries of one to MaxSpecs specifications, names repeated or not
Registries == SeqsUpTo(SpecSet, MaxSpecs) \ {<<>>}

RegistryInputs ==
    {<<":">> \o word \o (IF toks = <<>> THEN <<>> ELSE <<" ">> \o Join(toks, <<" ">>)) :
        word \in {RmName, EditAtName, <<"x">>},
        toks \in {<<>>, <<<<"f">>>>, <<<<"f">>, <<"1">>, <<"2">>>>,
                  <<<<"f">>, <<"1">>, <<"2">>, <<"Z">>>>}}

InitRegistry ==
    /\ NoRun
    /\ call \in {[fn |-> "parse_with", specs |-> r, input |-> i] :
                    r \in Registries, i \in RegistryInputs}
    /\ ret = Pending

\* parse_command on the line, over the registry
CallParseWith ==
    /\ call.fn = "parse_with"
    /\ ret = Pending
    /\ ret' = [tag |-> "done", cmd |-> ParseWith(call.specs, call.input)]
    /\ UNCHANGED <<runVars, call>>

RegistrySpec == InitRegistry /\ [][CallParseWith]_vars

TextUnits == {<<"a">>, <<NL>>, <<CR>>, <<E1, E2>>}

\* the file texts: at most MaxText characters, each of one or two bytes
Texts == {Flatten(us) : us \in SeqsUpTo(TextUnits, MaxText)}

FilePath == <<"f">>

InitEdit ==
    /\ NoRun
    /\ call \in {[fn |-> "execute",
                  cmd |-> [kind |-> "edit-at", path |-> FilePath, line |-> l,
                           col |-> c, content |-> <<"Z">>],
                  fs |-> [p \in {FilePath} |-> t]] :
                    t \in Texts, l \in 0..MaxLineNo, c \in 0..MaxLineNo}
    /\ ret = Pending

\* execute of the command on the filesystem
CallExecute ==
    /\ call.fn = "execute"
    /\ ret = Pending
    /\ \E o \in Execute(call.cmd, call.fs) : ret' = o
    /\ UNCHANGED <<runVars, call>>

EditSpec == InitEdit /\ [][CallExecute]_vars

SrcPath == <<"s">>
DstPath == <<"d">>

\* the lines of the generated src texts and of the generated dst texts
SrcLines == {<<"a">>, <<"b">>}
DstLines == {<<"x">>, <<"x", CR>>}

\* the texts of at most MaxLineNo lines, with and without a final newline
LineTexts(ls) ==
    {JoinNl(l) \o end : l \in SeqsUpTo(ls, MaxLineNo), end \in {<<>>, <<NL>>}}

InitMove ==
    /\ NoRun
    /\ call \in {[fn |-> "execute",
                  cmd |-> [kind |-> "move-content", src |-> SrcPath,
                           start_line |-> a, end_line |-> b, dst |-> DstPath,
                           dst_line |-> c],
                  fs |-> [p \in {SrcPath, DstPath} |->
                            IF p = SrcPath THEN t ELSE u]] :
                    t \in LineTexts(SrcLines), u \in LineTexts(DstLines),
                    a \in 0..MaxLineNo, b \in 0..MaxLineNo, c \in 0..MaxLineNo}
    /\ ret = Pending

MoveSpec == InitMove /\ [][CallExecute]_vars

\* move-content with src and dst naming the same file
InitMoveSame ==
    /\ NoRun
    /\ call \in {[fn |-> "execute",
                  cmd |-> [kind |-> "move-content", src |-> SrcPath,
                           start_line |-> a, end_line |-> b, dst |-> SrcPath,
                           dst_line |-> c],
                  fs |-> [p \in {SrcPath} |-> t]] :
                    t \in LineTexts(SrcLines),
                    a \in 0..MaxLineNo, b \in 0..MaxLineNo, c \in 0..MaxLineNo}
    /\ ret = Pending

MoveSameSpec == InitMoveSame /\ [][CallExecute]_vars

(***************************************************************************)
(* The claims.                                                             *)
(***************************************************************************)
StreamPcs == {"stream", "redraw", "fragdraw"}

Last(q) == q[Len(q)]

\* the text a fragment carries
TextOf(f) == IF f.choices > 0 /\ f.content # NoStr THEN f.content ELSE <<>>

\* the texts of the fragments handed out so far, concatenated in arrival order
ReceivedText == Flatten([i \in 1..Len(recvd) |-> TextOf(recvd[i])])

FragmentSymbols == {FragmentText(n)[1] : n \in 1..(MaxFrags + 1)}

\* stream_to_openai is about to return Ok: nothing is queued, the stream is
\* drained and closed, and something was merged
OkReturnState ==
    /\ pc = "stream"
    /\ events = <<>>
    /\ chat_stream.buf = <<>>
    /\ ~chat_stream.open
    /\ merged # NoMerged

C1_Open ==
    pc \in StreamPcs =>
        /\ idx \in 1..Len(messages)
        /\ messages[idx] = Turn("assistant", ReceivedText)
        /\ \A i \in 1..Len(messages) :
              messages[i].role = "system" =>
                  \A k \in 1..Len(messages[i].content) :
                      messages[i].content[k] \notin FragmentSymbols

C1_Closed ==
    (OkReturnState /\ pc' = "draw") =>
        /\ messages' = messages
        /\ messages[idx].content = ReceivedText

\* C1: while a stream is open, and when it has closed, the assistant Turn it
\* opened holds exactly the texts of the fragments received, concatenated in
\* arrival order, whatever events were drained in between; no system Turn
\* holds fragment text.
C1_StreamAccumulation == []C1_Open /\ [][C1_Closed]_vars

\* C1 witness: two fragments with text were received, and a system Turn was
\* appended after the assistant Turn by a drained event.
C1_Witness ==
    /\ pc = "stream"
    /\ Len(recvd) = 2
    /\ messages[idx].content = FragmentText(1) \o FragmentText(2)
    /\ Len(messages) > idx

\* C2: every event on the Event Bus is eventually applied (the queue is
\* eventually empty), whatever keys are pressed later, none included, unless
\* the process has ended.
C2_EventDelivery == (events # <<>>) ~> (events = <<>> \/ ~Alive)

\* C3: Enter on a buffer that starts with ':' and that parse_command rejects
\* appends no Turn, starts no stream and leaves the status; it only clears the
\* buffer.
C3_MalformedDropped ==
    [][(KeyEnter /\ pc' # "failed" /\ StartsWith(input, <<":">>)
          /\ parse_command(input) = NoCmd)
       => (messages' = messages /\ status' = status /\ input' = <<>>
             /\ pc' # "create")]_vars

\* the argument tail of a line is malformed for the command it names: no path
\* for touch, rm, write, edit-at and move-content, no substring for find, a
\* missing or non-numeric number for edit-at and move-content
MalformedArgs(line) ==
    LET rest == SplitN2(Tail(Trim(line)))
        word == rest.first
        args == IF rest.second = NoStr THEN <<>> ELSE rest.second
        toks == SplitWhitespace(args)
        bad(k) == Len(toks) < k \/ ParseUsize(toks[k]) = NoNum
    IN \/ word \in {TouchName, RmName, WriteName, FindName, EditAtName,
                    MoveContentName} /\ toks = <<>>
       \/ word = WriteName /\ Head(args) = " "
       \/ word = EditAtName /\ (bad(2) \/ bad(3))
       \/ word = MoveContentName /\ (bad(2) \/ bad(3) \/ Len(toks) < 4 \/ bad(5))

\* C4: parse_command returns none for every line that names a registered
\* command and whose argument string is malformed.
C4_MalformedRejected ==
    (ret.tag = "done" /\ StartsWith(Trim(call.input), <<":">>)
       /\ MalformedArgs(call.input))
    => ret.cmd = NoCmd

\* the step applies the final Status(Error) event of a failed command
AppliesCommandError ==
    /\ ApplyEvent
    /\ Head(events).type = "Status"
    /\ Head(events).status.tag = "Error"

C5_Emits ==
    \A i \in 1..Len(tasks) :
        tasks[i].res.tag = "err" =>
            /\ (tasks[i].pc = "notify" /\ tasks'[i].pc = "final") =>
                  /\ Last(events').type = "System"
                  /\ Contains(Last(events').text, tasks[i].res.text)
            /\ (tasks[i].pc = "final" /\ tasks'[i].pc = "done") =>
                  /\ Last(events').type = "Status"
                  /\ Last(events').status = StatusError(tasks[i].res.text)

StreamErrors == {CreateError, MergeError, DrawError}

\* C6: whenever stream_to_openai returns an error, a system Turn with the
\* error text is appended as the last Turn, status becomes Error(message), the
\* buffer is cleared and the loop goes to its next iteration.
C6_StreamErrorRecovered ==
    [][(pc \in StreamPcs \cup {"create"} /\ pc' \notin StreamPcs \cup {"create", "panicked"}
          /\ ~OkReturnState)
       => \E e \in StreamErrors :
             /\ messages' = Append(messages, Turn("system", RequestFailed(e)))
             /\ status' = StatusError(e)
             /\ input' = <<>>
             /\ pc' = "draw"]_vars

\* C6 witness: a merge failed, and the loop is at its next iteration with the
\* error Turn last.
C6_Witness ==
    /\ pc = "draw"
    /\ chats > 0
    /\ messages # <<>>
    /\ Last(messages) = Turn("system", RequestFailed(MergeError))
    /\ status = StatusError(MergeError)
    /\ input = <<>>

\* C7: no outcome of the response stream aborts the process.
C7_NoStreamOutcomeFatal == pc # "panicked"

\* C8: a line whose first character is not ':', a line of whitespace followed
\* by ':' included, is no command and takes the chat path as a user Turn.
C8_FirstCharDecides ==
    (ret.tag = "done" /\ call.input # <<>> /\ Head(call.input) # ":")
    => (ret.cmd = NoCmd /\ ret.route = "chat")

\* C9: after Enter on a buffer of one or more characters, whichever path is
\* taken, the buffer is empty when the loop reaches its next iteration.
C9_ClearedAfterEnter ==
    [][/\ (KeyEnter /\ input # <<>> /\ pc' = "draw") => input' = <<>>
       /\ (pc \in StreamPcs \cup {"create"} /\ pc' = "draw") => input' = <<>>]_vars

\* C10: edit-at with a line number that is 0 or beyond the last line succeeds
\* and appends the content to the text.
C10_OutOfRangeAppends ==
    (ret # Pending /\ call.fn = "execute" /\ call.cmd.kind = "edit-at"
       /\ (call.cmd.line = 0 \/ call.cmd.line > Len(Lines(call.fs[FilePath]))))
    => /\ ret.tag = "ok"
       /\ ret.fs[FilePath] = call.fs[FilePath] \o call.cmd.content

RECURSIVE SumLens(_, _)
\* the sum of (length + 1) over the first n lines of ls
SumLens(ls, n) ==
    IF n = 0 THEN 0 ELSE Len(ls[n]) + 1 + SumLens(ls, n - 1)

\* the line number of an edit-at call is one of the text's lines
EditInRange ==
    /\ call.fn = "execute"
    /\ call.cmd.kind = "edit-at"
    /\ call.cmd.line \in 1..Len(Lines(call.fs[FilePath]))

\* C11: edit-at with a line number in 1..number of lines, and any col, leaves
\* the file as the original text with the content inserted at offset
\* (sum over the lines before the target of (length + 1)) + min(col, length of
\* the target line), and changes nothing else.
C11_InRangeInserts ==
    (ret # Pending /\ EditInRange) =>
        LET text == call.fs[FilePath]
            ls == Lines(text)
            offset == SumLens(ls, call.cmd.line - 1)
                        + Min(call.cmd.col, Len(ls[call.cmd.line]))
        IN /\ ret.tag = "ok"
           /\ DOMAIN ret.fs = {FilePath}
           /\ ret.fs[FilePath] = SubSeq(text, 1, offset) \o call.cmd.content
                                   \o SubSeq(text, offset + 1, Len(text))

RECURSIVE Outside(_, _, _, _)
\* the lines of ls, numbered from k, whose number is outside lo..hi
Outside(ls, k, lo, hi) ==
    IF ls = <<>> THEN <<>>
    ELSE (IF k < lo \/ k > hi THEN <<Head(ls)>> ELSE <<>>)
         \o Outside(Tail(ls), k + 1, lo, hi)

\* a move-content call between the two files
MoveCall == call.fn = "execute" /\ call.cmd.kind = "move-content"

\* C12: for 1 <= start_line <= end_line and dst_line one of dst's lines,
\* move-content leaves in src its lines outside start_line..min(end_line,
\* number of lines), in order, and in dst its lines with the extracted lines
\* inserted, in order, before line dst_line.
C12_MoveResult ==
    LET sl == Lines(call.fs[SrcPath])
        dl == Lines(call.fs[DstPath])
        lo == call.cmd.start_line
        hi == Min(call.cmd.end_line, Len(sl))
        at == call.cmd.dst_line
    IN (/\ ret # Pending
        /\ MoveCall
        /\ 1 <= lo
        /\ lo <= call.cmd.end_line
        /\ at \in 1..Len(dl))
       => /\ ret.tag = "ok"
          /\ Lines(ret.fs[SrcPath]) = Outside(sl, 1, lo, hi)
          /\ Lines(ret.fs[DstPath]) =
                SubSeq(dl, 1, at - 1) \o SubSeq(sl, lo, hi) \o SubSeq(dl, at, Len(dl))

\* C13: move-content with any start_line, end_line and dst_line ends with a
\* result, success or error; its task is never aborted.
C13_MoveCompletes ==
    (ret # Pending /\ MoveCall) => ret.tag \in {"ok", "err"}

\* the step is one of a spawned task: some task is at another place
TaskMoved ==
    /\ Len(tasks') = Len(tasks)
    /\ \E i \in 1..Len(tasks) : tasks'[i].pc # tasks[i].pc

\* the step is one of the interaction loop: no task moves and the filesystem
\* is as before
MainMoved ==
    /\ \A i \in 1..Len(tasks) : i <= Len(tasks') => tasks'[i] = tasks[i]
    /\ fs' = fs

\* C14: a step of a background command task leaves the Turn sequence, the
\* input buffer and the status unchanged; the Turn sequence and the status
\* change only in steps of the interaction loop.
C14_SingleMutator ==
    [][/\ TaskMoved => UNCHANGED <<messages, input, status>>
       /\ (Alive' /\ (messages' # messages \/ status' # status)) => MainMoved]_vars

\* C14 witness: a command ran to its end and sent its three events, and the
\* conversation state is the one App::new built.
C14_Witness ==
    /\ pc = "poll"
    /\ Len(tasks) = 1
    /\ tasks[1].pc = "done"
    /\ Len(events) = 3
    /\ messages = <<Turn("system", SystemPrompt), Turn("system", ConfigLine)>>
    /\ status = Idle

\* a spawned command has not finished
Executing ==
    \E i \in 1..Len(tasks) : tasks[i].pc \in {"spawned", "exec", "notify", "final"}

\* C15: while a spawned command is executing, the interaction loop can take
\* its next step: draw, handle a key (Escape, Backspace, a character), apply
\* a queued event, and consume a fragment the stream holds; no step of the
\* loop waits for a command.
C15_LoopNotBlocked ==
    Executing =>
        /\ pc = "draw" => ENABLED MainDraw
        /\ pc = "poll" =>
              /\ ENABLED KeyEsc
              /\ ENABLED KeyBackspace
              /\ \A c \in KeyChars :
                    Typable(Append(input, c)) => ENABLED KeyChar(c)
        /\ (pc = "stream" /\ events # <<>>) => ENABLED ApplyEvent
        /\ (pc = "stream" /\ events = <<>> /\ chat_stream.buf # <<>>) =>
              ENABLED (RecvNoChoice \/ RecvNoText \/ RecvText)
        /\ pc = "redraw" => ENABLED Redraw
        /\ pc = "fragdraw" => ENABLED FragDraw

\* C15 witness: a command is inside execute while the stream loop holds a
\* fragment to consume.
C15_Witness ==
    /\ pc = "stream"
    /\ events = <<>>
    /\ chat_stream.buf # <<>>
    /\ \E i \in 1..Len(tasks) : tasks[i].pc = "exec"

InStream == StreamPcs \cup {"create"}

\* a stream exists only inside stream_to_openai, and the Turn it writes to is
\* the last assistant Turn of the history
C16_Open ==
    /\ chat_stream.open => pc \in StreamPcs
    /\ pc \in StreamPcs =>
          /\ idx \in 1..Len(messages)
          /\ messages[idx].role = "assistant"
          /\ \A k \in (idx + 1)..Len(messages) : messages[k].role # "assistant"

\* while a stream is requested or open no key is dispatched and no other
\* stream is requested; a Turn of the history changes only by the open
\* assistant Turn receiving text
C16_Step ==
    /\ (pc \in InStream /\ pc' \in InStream) =>
          /\ chats' = chats
          /\ input' = input
          /\ pc \in StreamPcs => idx' = idx
    /\ chats' > chats => (pc = "poll" /\ pc' = "create")
    /\ \A k \in 1..Len(messages) :
          (Alive' /\ k <= Len(messages') /\ messages'[k] # messages[k]) =>
              /\ pc \in StreamPcs
              /\ k = idx
              /\ messages[k].role = "assistant"

\* C16: at most one stream is in flight and only the assistant Turn pushed
\* when it was opened receives fragment text; no second stream starts before
\* the current one has closed, because no key is dispatched meanwhile.
C16_OneOpenTurn == []C16_Open /\ [][C16_Step]_vars

\* C16 witness: the second stream of a run has received text, and the
\* assistant Turn of the first stream is in the history.
C16_Witness ==
    /\ pc = "stream"
    /\ chats = 2
    /\ messages[idx].content # <<>>
    /\ \E k \in 1..(idx - 1) :
          messages[k].role = "assistant" /\ messages[k].content # <<>>

\* the run is the one of the touch line
TouchRun == call.fn = "run" /\ TouchLine \in call.keys

\* the Turns of the history that hold the success phrase of touch
CreatedTurns == {k \in 1..Len(messages) : messages[k] = Turn("system", MsgCreated)}

\* every spawned command has finished and every event it sent is applied
AllProcessed ==
    /\ Alive
    /\ tasks # <<>>
    /\ \A i \in 1..Len(tasks) : tasks[i].pc = "done"
    /\ events = <<>>

\* C17 as claimed: the path is absent at first, so one touch creates it and
\* every other touch finds it; a touch of the existing path leaves the Turn
\* sequence as it was, so the history holds the notification of one touch at
\* most.
C17_ReTouchAddsNoTurn == TouchRun => Cardinality(CreatedTurns) <= 1

\* touch returns the success phrase whether the path exists or not
C17_SamePhrase ==
    \A i \in 1..Len(tasks) :
        tasks[i].pc \in {"notify", "final", "done"} =>
            tasks[i].res = [tag |-> "ok", text |-> MsgCreated]

\* the events of a touch, once applied: one system Turn with the phrase,
\* then status Idle
C17_Applied ==
    ApplyEvent =>
        /\ Head(events).type = "System" =>
              messages' = Append(messages, Turn("system", MsgCreated))
        /\ (Head(events).type = "Status" /\ Head(events).status # Requesting) =>
              (status' = Idle /\ messages' = messages)

\* C17, amended: touch of a path that exists returns the same success phrase
\* as on an absent path and its task does not alter the conversation state
\* itself; once it has been fully processed the Turn sequence is the earlier
\* one extended by one system Turn with the phrase (one per touch, the
\* repeated one included) and the status its last event sets is Idle.
C17_ReTouch ==
    /\ [](TouchRun => C17_SamePhrase)
    /\ []((TouchRun /\ AllProcessed) => Cardinality(CreatedTurns) = Len(tasks))
    /\ [][TouchRun =>
            /\ TaskMoved => UNCHANGED <<messages, input, status>>
            /\ C17_Applied]_vars

\* C17 witness: two touches of the same path are fully processed, the
\* second one found the path, and the history holds both notifications.
C17_Witness ==
    /\ TouchRun
    /\ AllProcessed
    /\ Len(tasks) = 2
    /\ Cardinality(CreatedTurns) = 2
    /\ status = Idle

\* the events a task has sent, by the place it is at
Sent(t) ==
    CASE t.pc = "spawned" -> 0
      [] t.pc \in {"exec", "panicked"} -> 1
      [] t.pc = "notify" -> 1
      [] t.pc = "final" -> 2
      [] t.pc = "done" -> 3

\* the events of task i on the Event Bus are the last ones it sent, in the
\* order Status(Requesting), System, final Status
C18_Order ==
    \A i \in 1..Len(tasks) :
        LET mine == SelectSeq(events, LAMBDA e : e.from = i)
            all == <<"Status", "System", "Status">>
        IN /\ Len(mine) <= Sent(tasks[i])
           /\ \A k \in 1..Len(mine) :
                 mine[k].type = all[Sent(tasks[i]) - Len(mine) + k]

\* C18: every spawned command sends exactly three events, Status(Requesting),
\* one System notification and one final Status, in this order: a task that
\* has ended has sent all three, and its events are queued in that order.
C18_ThreeEvents ==
    /\ C18_Order
    /\ \A i \in 1..Len(tasks) :
          tasks[i].pc \in {"done", "panicked"} => Sent(tasks[i]) = 3

\* the notification of task i is applied; its final status is applied
NotificationApplied(i) ==
    /\ tasks[i].pc \in {"final", "done"}
    /\ \A k \in 1..Len(events) : ~(events[k].from = i /\ events[k].type = "System")

FinalApplied(i) ==
    /\ tasks[i].pc = "done"
    /\ \A k \in 1..Len(events) : events[k].from # i

\* C19: no redraw shows a state in which the notification Turn of a command
\* is appended and its final status is not applied.
C19_PairBeforeRedraw ==
    [][(Redraw \/ FragDraw \/ MainDraw) =>
          \A i \in 1..Len(tasks) : NotificationApplied(i) => FinalApplied(i)]_vars

\* the place in the registry of the first specification named cmd, or 0
FirstNamed(specs, cmd) ==
    IF \E k \in 1..Len(specs) : specs[k].name = cmd
    THEN CHOOSE k \in 1..Len(specs) :
            specs[k].name = cmd /\ \A j \in 1..(k - 1) : specs[j].name # cmd
    ELSE 0

IsPrefix(s, t) == Len(s) <= Len(t) /\ SubSeq(t, 1, Len(s)) = s

\* a step of the running process keeps every Turn at its place with its
\* role; a content changes only at the open assistant Turn, by a suffix
C21_Step ==
    Alive' =>
        /\ Len(messages') >= Len(messages)
        /\ \A k \in 1..Len(messages) :
              /\ messages'[k].role = messages[k].role
              /\ messages'[k].content # messages[k].content =>
                    /\ pc \in StreamPcs
                    /\ k = idx
                    /\ messages[k].role = "assistant"
                    /\ IsPrefix(messages[k].content, messages'[k].content)

\* a stream that opens writes to a Turn it appends, so a Turn of a closed
\* stream is never the open one again
C21_Fresh ==
    (pc = "create" /\ pc' \in StreamPcs) =>
        (idx' = Len(messages) + 1 /\ Len(messages') = idx')

\* C21: no step removes or reorders a Turn or changes its role; the content
\* of an existing Turn changes only for the assistant Turn of the stream in
\* flight, by an appended suffix, and never after that stream has closed.
C21_AppendOnly == [][C21_Step /\ C21_Fresh]_vars

\* C21 witness: the assistant Turn of a closed stream holds text, and a
\* second chat message has been appended after it.
C21_Witness ==
    /\ pc = "create"
    /\ chats = 2
    /\ \E k \in 1..Len(messages) :
          /\ messages[k].role = "assistant"
          /\ messages[k].content # <<>>
          /\ k < Len(messages)

\* the loop of stream_to_openai is left by its break
LoopBreaks ==
    /\ pc \in StreamPcs
    /\ pc' \notin StreamPcs
    /\ \/ Alive' /\ status' = Idle
       \/ ~Alive' /\ chat_stream.buf = <<>>

\* while the stream stays open, the fragments delivered are all appended
C22_Fragments ==
    (pc \in StreamPcs /\ chat_stream.buf # <<>>)
        ~> (pc \notin StreamPcs \/ chat_stream.buf = <<>>)

\* while the stream stays open, the events queued are all applied
C22_Events ==
    (pc \in StreamPcs /\ events # <<>>)
        ~> (pc \notin StreamPcs \/ events = <<>>)

\* once the producer has closed the stream the loop is left
C22_Exit ==
    (pc \in StreamPcs /\ ~chat_stream.open) ~> (pc \notin StreamPcs)

\* the break is taken with nothing delivered left to consume
C22_BreakAfterAll ==
    [][LoopBreaks =>
          (~chat_stream.open /\ chat_stream.buf = <<>> /\ events = <<>>)]_vars

\* C22: with a fair loop and boundedly many commands, a stream that stays
\* open has every delivered fragment appended and every queued event
\* applied; after the producer closes, the loop is left, and its break is
\* taken only with every delivered fragment consumed.
C22_NoStarvation ==
    C22_Fragments /\ C22_Events /\ C22_Exit /\ C22_BreakAfterAll

\* C22 witness: the loop is draining an event with a fragment waiting and
\* the producer already gone.
C22_Witness ==
    /\ pc = "redraw"
    /\ events # <<>>
    /\ chat_stream.buf # <<>>
    /\ ~chat_stream.open

RECURSIVE DropToken(_)
\* s without its leading run of non-whitespace characters
DropToken(s) ==
    IF s = <<>> \/ IsWs(Head(s)) THEN s ELSE DropToken(Tail(s))

\* what follows the third token of an argument tail
AfterThird(args) ==
    DropToken(TrimStart(DropToken(TrimStart(DropToken(TrimStart(args))))))

\* C23: for an edit-at line with a path, a line and a col token that parse,
\* the content of the parsed command is what follows the col token and one
\* space, exactly, and is empty only when nothing follows the col token.
C23_ContentVerbatim ==
    LET line == Trim(call.input)
        rest == SplitN2(Tail(line))
        args == IF rest.second = NoStr THEN <<>> ELSE rest.second
        toks == SplitWhitespace(args)
        after == AfterThird(args)
    IN (/\ ret.tag = "done"
        /\ StartsWith(line, <<":">>)
        /\ rest.first = EditAtName
        /\ Len(toks) >= 3
        /\ ParseUsize(toks[2]) # NoNum
        /\ ParseUsize(toks[3]) # NoNum)
       => /\ ret.cmd.kind = "edit-at"
          /\ ret.cmd.content = (IF after = <<>> THEN <<>> ELSE Tail(after))

\* C24: from the submission of a chat message to the return of
\* stream_to_openai, status is Requesting, whatever events are drained.
C24_RequestingThroughout == pc \in InStream => status = Requesting

\* the Status(Requesting) event of task i has been applied and its command
\* is executing
BusyApplied(i) ==
    /\ tasks[i].pc = "exec"
    /\ \A k \in 1..Len(events) : events[k].from # i

\* C25: when status is Idle no command whose Status(Requesting) was applied
\* is still running, and the Error status of a failed command is not
\* replaced by Idle.
C25_StatusReflectsWork ==
    /\ [](status = Idle => \A i \in 1..Len(tasks) : ~BusyApplied(i))
    /\ [][(status = StatusError(NotFound) /\ Alive') => status' # Idle]_vars

\* C26: a command that has sent all its events when a chat message is
\* submitted has its notification Turn before the user Turn of that message
\* and in the context of the request. Turns are only ever appended and the
\* context is the history at the call, so this is: at the submission the
\* notification of every finished command is already applied.
C26_CausalOrder ==
    [][EnterChat =>
          \A i \in 1..Len(tasks) :
              tasks[i].pc = "done" => NotificationApplied(i)]_vars

\* how many of the lines ls are v
Count(ls, v) == Cardinality({k \in 1..Len(ls) : ls[k] = v})

\* C27: move-content with src and dst the same file and a valid range leaves
\* in the file each original line once, no line lost or duplicated, with
\* the lines start_line..end_line before the original line dst_line.
C27_SameFileMove ==
    LET sl == Lines(call.fs[SrcPath])
        lo == call.cmd.start_line
        hi == call.cmd.end_line
        at == call.cmd.dst_line
    IN (/\ ret # Pending
        /\ MoveCall
        /\ call.cmd.src = call.cmd.dst
        /\ 1 <= lo
        /\ lo <= hi
        /\ hi <= Len(sl)
        /\ at \in 1..Len(sl))
       => /\ ret.tag = "ok"
          /\ \A v \in SrcLines :
                Count(Lines(ret.fs[SrcPath]), v) = Count(sl, v)
          /\ at \notin lo..hi =>
                Lines(ret.fs[SrcPath]) =
                    Outside(SubSeq(sl, 1, at - 1), 1, lo, hi)
                      \o SubSeq(sl, lo, hi)
                      \o Outside(SubSeq(sl, at, Len(sl)), at, lo, hi)

====
